---- MODULE Spec2Model ----
(***************************************************************************)
(* Model of src/lib.rs of dockerfile-parser-rs: parse_instruction and the  *)
(* nom combinators it is built from, run by its doc-test (Spec) and by the *)
(* loop that assembles a Dockerfile from successive remainders (LoopSpec). *)
(*                                                                         *)
(* A &str is a sequence of one-character strings.  An IResult is a record  *)
(*   [ok |-> TRUE,  rem |-> unconsumed input, out |-> output, kind |-> "None"] *)
(*   [ok |-> FALSE, rem |-> input the error carries, out |-> NoOutput,     *)
(*    kind |-> the nom ErrorKind]                                          *)
(***************************************************************************)
EXTENDS Integers, Sequences, FiniteSets

VARIABLES input, rem, instructions, called, result, pc

vars == <<input, rem, instructions, called, result, pc>>

----------------------------------------------------------------------------
(* Bounds of the input generator.                                          *)

\* longest run of whitespace put before the keyword
MaxLead == 1
\* longest run of whitespace put after the argument
MaxTrail == 1
\* longest name and longest tag of a generated image reference
MaxImage == 3
\* longest string of image characters put after a keyword of any casing
MaxRef == 2
\* most instruction lines in a generated document
MaxLines == 2

----------------------------------------------------------------------------
(* Characters.                                                             *)

LowerLetters == <<"a","b","c","d","e","f","g","h","i","j","k","l","m",
                  "n","o","p","q","r","s","t","u","v","w","x","y","z">>

UpperLetters == <<"A","B","C","D","E","F","G","H","I","J","K","L","M",
                  "N","O","P","Q","R","S","T","U","V","W","X","Y","Z">>

Letters == {LowerLetters[i] : i \in DOMAIN LowerLetters}
               \cup {UpperLetters[i] : i \in DOMAIN UpperLetters}

\* char::is_ascii_alphabetic, the test behind alpha1
is_alpha(c) == c \in Letters

\* the characters space0/space1 accept
is_space(c) == c \in {" ", "\t"}

\* the characters multispace0 accepts
is_multispace(c) == c \in {" ", "\t", "\r", "\n"}

\* the argument of is_not in is_not_newline
NewlineChars == {"\r", "\n"}

\* faulty variant of char_to_ascii_lowercase: leaves the character as it is
char_keep_case(c) == c

char_to_ascii_lowercase(c) ==
    IF \E i \in DOMAIN UpperLetters : UpperLetters[i] = c
    THEN LowerLetters[CHOOSE i \in DOMAIN UpperLetters : UpperLetters[i] = c]
    ELSE c

\* str::to_ascii_lowercase
to_ascii_lowercase(s) == [i \in 1..Len(s) |-> char_to_ascii_lowercase(s[i])]

----------------------------------------------------------------------------
(* nom results and combinators.                                            *)

NoOutput == <<"no output">>

Ok(r, o) == [ok |-> TRUE, rem |-> r, out |-> o, kind |-> "None"]

\* Err(nom::Err::Error(make_error(input, kind)))
make_error(i, k) == [ok |-> FALSE, rem |-> i, out |-> NoOutput, kind |-> k]

Drop(s, n) == SubSeq(s, n + 1, Len(s))

Take(s, n) == SubSeq(s, 1, n)

RECURSIVE MultispaceLen(_, _)
\* how far the run of multispace characters that starts after s[1..n] goes
MultispaceLen(s, n) ==
    IF n < Len(s) /\ is_multispace(s[n + 1]) THEN MultispaceLen(s, n + 1) ELSE n

RECURSIVE AlphaLen(_, _)
\* how far the run of ASCII letters that starts after s[1..n] goes
AlphaLen(s, n) ==
    IF n < Len(s) /\ is_alpha(s[n + 1]) THEN AlphaLen(s, n + 1) ELSE n

RECURSIVE SpaceLen(_, _)
\* how far the run of spaces and tabs that starts after s[1..n] goes
SpaceLen(s, n) ==
    IF n < Len(s) /\ is_space(s[n + 1]) THEN SpaceLen(s, n + 1) ELSE n

RECURSIVE IsNotLen(_, _, _)
\* how far the run of characters outside chars that starts after s[1..n] goes
IsNotLen(chars, s, n) ==
    IF n < Len(s) /\ s[n + 1] \notin chars THEN IsNotLen(chars, s, n + 1) ELSE n

\* nom::character::complete::multispace0: zero or more, never fails
multispace0(i) ==
    LET n == MultispaceLen(i, 0) IN Ok(Drop(i, n), Take(i, n))

\* nom::character::complete::alpha1: one or more, ErrorKind::Alpha
alpha1(i) ==
    LET n == AlphaLen(i, 0)
    IN  IF n = 0 THEN make_error(i, "Alpha") ELSE Ok(Drop(i, n), Take(i, n))

\* nom::character::complete::space1: one or more, ErrorKind::Space
space1(i) ==
    LET n == SpaceLen(i, 0)
    IN  IF n = 0 THEN make_error(i, "Space") ELSE Ok(Drop(i, n), Take(i, n))

\* nom::bytes::complete::is_not: one or more, ErrorKind::IsNot
is_not(chars, i) ==
    LET n == IsNotLen(chars, i, 0)
    IN  IF n = 0 THEN make_error(i, "IsNot") ELSE Ok(Drop(i, n), Take(i, n))

\* nom::sequence::delimited over the results of its three parsers, each run
\* on the remainder of the one before: the first error, or the middle output
delimited(first, second, third) ==
    IF ~first.ok THEN first
    ELSE IF ~second.ok THEN second
    ELSE IF ~third.ok THEN third
    ELSE Ok(third.rem, second.out)

is_not_newline(i) == is_not(NewlineChars, i)

\* faulty variant of ws_is_not_newline: the whitespace after the argument is left
ws_leading_only(i) ==
    LET first  == multispace0(i)
        second == is_not_newline(first.rem)
    IN  delimited(first, second, Ok(second.rem, <<>>))

\* ws(is_not_newline()): delimited(multispace0, inner, multispace0)
ws_is_not_newline(i) ==
    LET first  == multispace0(i)
        second == is_not_newline(first.rem)
        third  == multispace0(second.rem)
    IN  delimited(first, second, third)

----------------------------------------------------------------------------
(* Instructions and parse_instruction.                                     *)

From_NAME == <<"f","r","o","m">>

Run_NAME == <<"r","u","n">>

From_new(image) == [variant |-> "From", arg |-> image]

Run_new(command) == [variant |-> "Run", arg |-> command]

\* faulty variant of From_parse: wraps the argument in the other variant
From_parse_as_run(i) ==
    LET r == ws_is_not_newline(i)
    IN  IF ~r.ok THEN r ELSE Ok(r.rem, Run_new(r.out))

\* <From as InstructionParser>::parse
From_parse(i) ==
    LET r == ws_is_not_newline(i)
    IN  IF ~r.ok THEN r ELSE Ok(r.rem, From_new(r.out))

\* faulty variant of Run_parse: wraps the argument in the other variant
Run_parse_as_from(i) ==
    LET r == ws_is_not_newline(i)
    IN  IF ~r.ok THEN r ELSE Ok(r.rem, From_new(r.out))

\* <Run as InstructionParser>::parse
Run_parse(i) ==
    LET r == ws_is_not_newline(i)
    IN  IF ~r.ok THEN r ELSE Ok(r.rem, Run_new(r.out))

\* faulty variant of keyword: space0 for space1, no separator is required
keyword_without_separator(i) ==
    LET first  == multispace0(i)
        second == alpha1(first.rem)
        n      == SpaceLen(second.rem, 0)
    IN  delimited(first, second, Ok(Drop(second.rem, n), Take(second.rem, n)))

\* delimited(multispace0, alpha1, space1)(input)
keyword(i) ==
    LET first  == multispace0(i)
        second == alpha1(first.rem)
        third  == space1(second.rem)
    IN  delimited(first, second, third)

parse_instruction(i) ==
    LET k == keyword(i)
    IN  IF ~k.ok THEN k
        ELSE LET instruction == to_ascii_lowercase(k.out)
             IN  IF instruction = From_NAME THEN From_parse(k.rem)
                 ELSE IF instruction = Run_NAME THEN Run_parse(k.rem)
                 ELSE make_error(k.rem, "Tag")

----------------------------------------------------------------------------
(* Inputs.                                                                 *)

\* all sequences over S of length lo..hi
Seqs(S, lo, hi) == UNION {[1..k -> S] : k \in lo..hi}

Whitespace == {" ", "\t", "\r", "\n"}

\* the whitespace put before the keyword
LeadWhitespace == {" ", "\t", "\n"}

\* the whitespace put after the argument
TrailWhitespace == {" ", "\r", "\n"}

Keywords == { <<"F","R","O","M">>, <<"f","R","o","M">>, <<"r","u","n">>,
              <<"F","O","O">>,
              <<"F","R","O","M","A","G","E">>, <<>> }

Separators == { <<>>, <<" ">>, <<"\t", " ">>, <<":">> }

Arguments == { <<>>, <<"x",":","y">>, <<"a"," ","b">> }

Tails == { <<>>, <<"R","U","N"," ","x">>, <<"F","O","O"," ","y","\n">> }

\* one instruction line with arbitrary padding, followed by more text
PaddedInputs ==
    { lead \o kw \o sep \o arg \o trail \o tail :
        lead \in Seqs(LeadWhitespace, 0, MaxLead), kw \in Keywords,
        sep \in Separators, arg \in Arguments,
        trail \in Seqs(TrailWhitespace, 0, MaxTrail), tail \in Tails }

FromCasings ==
    { <<f, r, o, m>> : f \in {"f","F"}, r \in {"r","R"},
                       o \in {"o","O"}, m \in {"m","M"} }

ImageSample == {"a", "0", ".", ":", "/", "-"}

\* "from" in every casing, a space, and a string of image characters
CasedFromInputs ==
    { k \o <<" ">> \o s : k \in FromCasings, s \in Seqs(ImageSample, 1, MaxRef) }

DocLeads == { <<>>, <<"\n", " ">> }

DocKeywords == { [text |-> <<"F","R","O","M">>, variant |-> "From"],
                 [text |-> <<"r","U","n">>, variant |-> "Run"] }

DocSeparators == { <<" ">>, <<"\t", " ">> }

DocArguments == { <<"u",":","t">>, <<"/","b"," ","-","c"," ">> }

\* a well-formed instruction line, as the parts it is written from
DocLines ==
    [lead : DocLeads, kw : DocKeywords, sep : DocSeparators, arg : DocArguments]

\* the image the doc-test of parse_instruction asserts
DocTestImage ==
    << "u","b","u","n","t","u",":","t","e","s","t" >>

\* the command the doc-test of parse_instruction asserts
DocTestCommand ==
    << "/","b","i","n","/","b","a","s","h"," ","-","c",
       " ","e","c","h","o"," ","\"","t","e","s","t","\"" >>

\* the input of the doc-test of parse_instruction, as the lines it is written
\* from
DocTestDoc ==
    << [lead |-> <<"\n">>, kw |-> [text |-> <<"F","R","O","M">>, variant |-> "From"],
        sep |-> <<" ">>, arg |-> DocTestImage],
       [lead |-> <<>>, kw |-> [text |-> <<"R","U","N">>, variant |-> "Run"],
        sep |-> <<" ">>, arg |-> DocTestCommand] >>

\* the characters the image references are generated from: two of [a-z0-9]
\* and the separators [._-]
ImageAlnum == {"a", "0"}

ImageSeparators == {".", "_", "-"}

\* ([a-z0-9]+[._-]?)+[a-z0-9]+ : starts and ends with [a-z0-9], no two
\* separators in a row, two characters or more
IsImageName(s) ==
    /\ Len(s) >= 2
    /\ s[1] \in ImageAlnum
    /\ s[Len(s)] \in ImageAlnum
    /\ \A i \in 1..(Len(s) - 1) :
           ~(s[i] \in ImageSeparators /\ s[i + 1] \in ImageSeparators)

ImageNames ==
    { s \in Seqs(ImageAlnum \cup ImageSeparators, 2, MaxImage) : IsImageName(s) }

\* DOMAIN_AND_PORT_REGEX: one label and a dot, a last label of two
\* characters, a colon, a port of no or one digit, a slash
DomainAndPorts ==
    { <<"a", ".", "a", "a", ":">> \o port \o <<"/">> : port \in {<<>>, <<"0">>} }

\* IMAGE_NAME_REGEX: an optional domain and port, a name, a colon, a tag
ImageRefs ==
    { d \o n \o <<":">> \o g :
        d \in {<<>>} \cup DomainAndPorts, n \in ImageNames, g \in ImageNames }
        \cup {DocTestImage}

\* the proptest generator arbitrary_from: format!("FROM {}", s)
FromInputs == { <<"F","R","O","M"," ">> \o s : s \in ImageRefs }

Docs == Seqs(DocLines, 1, MaxLines) \cup {DocTestDoc}

RenderLine(l) == l.lead \o l.kw.text \o l.sep \o l.arg \o <<"\n">>

RECURSIVE Render(_)
\* the buffer a document is written as
Render(d) == IF d = <<>> THEN <<>> ELSE RenderLine(Head(d)) \o Render(Tail(d))

DocInputs == { Render(d) : d \in Docs }

Inputs == PaddedInputs \cup CasedFromInputs \cup FromInputs \cup DocInputs

----------------------------------------------------------------------------
(* The doc-test of parse_instruction, on any input: a call on the input, a *)
(* call on the remainder of the first, each left by `?` on an error, then  *)
(* the match with its assertions.  The remainder of the second call is     *)
(* dropped.                                                                *)

NoResult == [ok |-> FALSE, rem |-> <<>>, out |-> NoOutput, kind |-> "NotCalled"]

Init ==
    /\ input \in Inputs
    /\ rem = input
    /\ instructions = <<>>
    /\ called = <<>>
    /\ result = NoResult
    /\ pc = "first"

\* let (rem, from_instruction) = parse_instruction(input)?  -- Ok
FirstOk ==
    /\ pc = "first"
    /\ result' = parse_instruction(input)
    /\ result'.ok
    /\ called' = input
    /\ rem' = result'.rem
    /\ instructions' = <<result'.out>>
    /\ pc' = "second"
    /\ UNCHANGED input

\* let (rem, from_instruction) = parse_instruction(input)?  -- Err, returned
FirstErr ==
    /\ pc = "first"
    /\ result' = parse_instruction(input)
    /\ ~result'.ok
    /\ called' = input
    /\ pc' = "failed"
    /\ UNCHANGED <<input, rem, instructions>>

\* let (_, run_instruction) = parse_instruction(rem)?  -- Ok, and the match:
\* the assertions hold, or the test panics
SecondOk ==
    /\ pc = "second"
    /\ result' = parse_instruction(rem)
    /\ result'.ok
    /\ called' = rem
    /\ instructions' = Append(instructions, result'.out)
    /\ pc' = IF instructions' = << From_new(DocTestImage), Run_new(DocTestCommand) >>
             THEN "done" ELSE "panicked"
    /\ UNCHANGED <<input, rem>>

\* let (_, run_instruction) = parse_instruction(rem)?  -- Err, returned
SecondErr ==
    /\ pc = "second"
    /\ result' = parse_instruction(rem)
    /\ ~result'.ok
    /\ called' = rem
    /\ pc' = "failed"
    /\ UNCHANGED <<input, rem, instructions>>

Next == FirstOk \/ FirstErr \/ SecondOk \/ SecondErr

Spec == Init /\ [][Next]_vars

----------------------------------------------------------------------------
(* The assembly of Dockerfile.instructions, which the repository declares  *)
(* and leaves to the caller: parse_instruction on the input and then on    *)
(* every remainder, until nothing is left or a call fails.                 *)

LoopInit ==
    /\ input \in Inputs
    /\ rem = input
    /\ instructions = <<>>
    /\ called = <<>>
    /\ result = NoResult
    /\ pc = IF input = <<>> THEN "done" ELSE "parsing"

LoopOk ==
    /\ pc = "parsing"
    /\ result' = parse_instruction(rem)
    /\ result'.ok
    /\ called' = rem
    /\ rem' = result'.rem
    /\ instructions' = Append(instructions, result'.out)
    /\ pc' = IF rem' = <<>> THEN "done" ELSE "parsing"
    /\ UNCHANGED input

LoopErr ==
    /\ pc = "parsing"
    /\ result' = parse_instruction(rem)
    /\ ~result'.ok
    /\ called' = rem
    /\ pc' = "failed"
    /\ UNCHANGED <<input, rem, instructions>>

LoopNext == LoopOk \/ LoopErr

LoopSpec == LoopInit /\ [][LoopNext]_vars

----------------------------------------------------------------------------
(* Vocabulary of the properties: the shape of an input, described without  *)
(* the parser.                                                             *)

Blanks == {" ", "\t"}

Digits == {"0","1","2","3","4","5","6","7","8","9"}

\* the characters of the image-reference grammar, [a-z0-9._:/-]
ImageChars ==
    {LowerLetters[i] : i \in DOMAIN LowerLetters} \cup Digits
        \cup {".", ":", "/", "-"}

IsImageRef(s) == s # <<>> /\ \A i \in DOMAIN s : s[i] \in ImageChars

SameLetter(c, d) ==
    \E i \in DOMAIN LowerLetters :
        {c, d} \subseteq {LowerLetters[i], UpperLetters[i]}

\* k is name in some upper/lower-case rendering
IsCasing(k, name) ==
    Len(k) = Len(name) /\ \A i \in DOMAIN k : SameLetter(k[i], name[i])

\* the index at which the longest run of characters of S after s[1..a] ends
RunEnd(s, a, S) ==
    CHOOSE n \in a..Len(s) :
        /\ \A i \in (a + 1)..n : s[i] \in S
        /\ n < Len(s) => s[n + 1] \notin S

\* end of the leading whitespace, of the keyword's letters, of its separator
LeadEnd(s) == RunEnd(s, 0, Whitespace)

KeywordEnd(s) == RunEnd(s, LeadEnd(s), Letters)

SepEnd(s) == RunEnd(s, KeywordEnd(s), Blanks)

KeywordOf(s) == SubSeq(s, LeadEnd(s) + 1, KeywordEnd(s))

IsKnownKeyword(k) == IsCasing(k, From_NAME) \/ IsCasing(k, Run_NAME)

\* s starts, after whitespace, with letters followed by a space or a tab
HasKeywordShape(s) ==
    /\ KeywordEnd(s) > LeadEnd(s)
    /\ SepEnd(s) > KeywordEnd(s)

\* the index of the first CR or LF after the keyword, Len(s) + 1 without one
LineEnd(s) ==
    CHOOSE n \in (KeywordEnd(s) + 1)..(Len(s) + 1) :
        /\ \A i \in (KeywordEnd(s) + 1)..(n - 1) : s[i] \notin NewlineChars
        /\ n <= Len(s) => s[n] \in NewlineChars

\* the index of the last character of s that is no whitespace, 0 without one
LastText(s) ==
    CHOOSE n \in 0..Len(s) :
        /\ n > 0 => s[n] \notin Whitespace
        /\ \A i \in (n + 1)..Len(s) : s[i] \in Whitespace

\* x occurs in y as a contiguous slice
IsSliceOf(x, y) ==
    \E a \in 0..Len(y) : a + Len(x) <= Len(y) /\ SubSeq(y, a + 1, a + Len(x)) = x

Squeeze(s) == SelectSeq(s, LAMBDA c : c \notin Whitespace)

Called == result.kind # "NotCalled"

\* the calls made so far: one per instruction, and the one that failed
Calls == Len(instructions) + (IF pc = "failed" THEN 1 ELSE 0)

Expected(d) == [i \in DOMAIN d |-> [variant |-> d[i].kw.variant, arg |-> d[i].arg]]

DocTable == { <<Render(d), Expected(d)>> : d \in Docs }

KeywordText(variant) ==
    IF variant = "From" THEN <<"F","R","O","M">> ELSE <<"R","U","N">>

\* the line written back from an instruction: keyword, one space, argument
Reconstruct(instruction) ==
    KeywordText(instruction.variant) \o <<" ">> \o instruction.arg

\* x and y are equal but for the case of the letters of their first n characters
SameButKeywordCase(x, y, n) ==
    /\ Len(x) = Len(y)
    /\ \A i \in DOMAIN x : x[i] = y[i] \/ (i <= n /\ SameLetter(x[i], y[i]))

----------------------------------------------------------------------------
(* C1: "from" in any casing, one space and an image reference parse to the *)
(* instruction From holding exactly that reference, with nothing left; so  *)
(* do the strings of the generator arbitrary_from, "FROM " and an image    *)
(* reference of IMAGE_NAME_REGEX.                                          *)
C1_FromImageParses ==
    /\ ( /\ Called
         /\ Len(called) >= 6
         /\ IsCasing(Take(called, 4), From_NAME)
         /\ called[5] = " "
         /\ IsImageRef(Drop(called, 5)) )
       => result = Ok(<<>>, From_new(Drop(called, 5)))
    /\ (Called /\ called \in FromInputs)
       => result = Ok(<<>>, From_new(Drop(called, 5)))

C1_Witness ==
    /\ called = <<"f","R","o","M"," ","a","/">>
    /\ result.ok
    /\ result.out = From_new(<<"a","/">>)
    /\ result.rem = <<>>

(* C2: on a buffer of N well-formed instruction lines the calls on the     *)
(* successive remainders return the instructions in document order with    *)
(* the variant and the argument of each line, none of the first N calls    *)
(* fails, and the N-th call leaves nothing.  The argument of a line is its *)
(* text between the separator and the newline.                             *)
C2_DocumentParsesInOrder ==
    input \in DocInputs =>
        \A p \in DocTable :
            p[1] = input =>
                /\ Len(instructions) <= Len(p[2])
                /\ instructions = Take(p[2], Len(instructions))
                /\ pc = "failed" => Calls > Len(p[2])
                /\ (Called /\ result.ok /\ Len(instructions) = Len(p[2]))
                       => result.rem = <<>>

C2_Witness ==
    /\ pc = "done"
    /\ input = Render(DocTestDoc)
    /\ instructions = << From_new(DocTestImage), Run_new(DocTestCommand) >>
    /\ result.rem = <<>>

(* C3: the argument of a returned instruction neither starts nor ends with *)
(* a whitespace character and holds no CR or LF.                           *)
C3_ArgumentIsTrimmed ==
    (Called /\ result.ok) =>
        LET arg == result.out.arg
        IN  /\ arg # <<>> => arg[1] \notin Whitespace
            /\ arg # <<>> => arg[Len(arg)] \notin Whitespace
            /\ \A i \in DOMAIN arg : arg[i] \notin NewlineChars

(* C4: padding a well-formed single instruction (whitespace before the     *)
(* keyword, more spaces or tabs after it, spaces or tabs and then newlines *)
(* after the argument) does not change the instruction that is returned.   *)
C4_PaddingIsInsignificant ==
    LET arg  == SubSeq(called, SepEnd(called) + 1, LastText(called))
        pad  == Drop(called, LastText(called))
        base == KeywordOf(called) \o <<" ">> \o arg
    IN  ( /\ Called
          /\ HasKeywordShape(called)
          /\ IsKnownKeyword(KeywordOf(called))
          /\ LastText(called) > SepEnd(called)
          /\ \A i \in DOMAIN arg : arg[i] \notin NewlineChars
          /\ \A i \in DOMAIN pad :
                 pad[i] \in Blanks => \A j \in 1..i : pad[j] \in Blanks )
        => /\ result.ok
           /\ parse_instruction(base).ok
           /\ result.out = parse_instruction(base).out

(* C5: a known keyword and its separator followed by nothing but           *)
(* whitespace up to the end of the input parse to the instruction with an  *)
(* empty argument.                                                         *)
C5_EmptyArgumentAccepted ==
    ( /\ Called
      /\ HasKeywordShape(called)
      /\ IsKnownKeyword(KeywordOf(called))
      /\ LastText(called) = KeywordEnd(called) )
    => /\ result.ok
       /\ result.out.arg = <<>>
       /\ result.out.variant =
              (IF IsCasing(KeywordOf(called), From_NAME) THEN "From" ELSE "Run")

(* C6: an input without the keyword shape (letters, then a space or a tab) *)
(* fails with the malformed-keyword error, never the unrecognized one; an  *)
(* input with the shape whose letters are neither "from" nor "run" in any  *)
(* casing fails with the unrecognized-instruction error; so an instruction *)
(* is returned only for a keyword that is exactly "from" or "run".         *)
C6_FailureByKeywordShape ==
    Called =>
        /\ ~HasKeywordShape(called) =>
               ~result.ok /\ result.kind \in {"Alpha", "Space"}
        /\ (HasKeywordShape(called) /\ ~IsKnownKeyword(KeywordOf(called))) =>
               ~result.ok /\ result.kind = "Tag"
        /\ result.ok =>
               /\ HasKeywordShape(called)
               /\ result.out.variant = "From" => IsCasing(KeywordOf(called), From_NAME)
               /\ result.out.variant = "Run" => IsCasing(KeywordOf(called), Run_NAME)

C6_Witness ==
    /\ KeywordOf(called) = <<"F","R","O","M","A","G","E">>
    /\ SepEnd(called) > KeywordEnd(called)
    /\ ~result.ok
    /\ result.kind = "Tag"

(* C7: the error for a keyword that is not in the registry carries the     *)
(* position of the keyword's first letter.                                 *)
C7_ErrorAtKeyword ==
    (Called /\ result.kind = "Tag") =>
        Len(called) - Len(result.rem) = LeadEnd(called)

(* C8: the line written back from a returned instruction (keyword, one     *)
(* space, argument) equals the consumed part of the input when whitespace  *)
(* and the case of the keyword are ignored, and parses to the same         *)
(* instruction with nothing left.                                          *)
C8_RoundTrip ==
    (Called /\ result.ok) =>
        LET line     == Reconstruct(result.out)
            consumed == Take(called, Len(called) - Len(result.rem))
        IN  /\ SameButKeywordCase(Squeeze(line), Squeeze(consumed),
                                  Len(KeywordText(result.out.variant)))
            /\ parse_instruction(line) = Ok(<<>>, result.out)

C8_Witness ==
    /\ called = <<"\n","f","R","o","M","\t"," ","a"," ","b","\n">>
    /\ result = Ok(<<>>, From_new(<<"a"," ","b">>))

(* C9: the argument is a slice of the rest of the keyword's line, between  *)
(* the separator and the first CR or LF after the keyword, and the text of *)
(* the later lines is left in the remainder.                               *)
C9_ArgumentWithinLine ==
    (Called /\ result.ok) =>
        /\ IsSliceOf(result.out.arg,
                     SubSeq(called, SepEnd(called) + 1, LineEnd(called) - 1))
        /\ Squeeze(result.rem) = Squeeze(Drop(called, LineEnd(called) - 1))

(* C10 as stated: every successful call shortens the input by three        *)
(* characters or more and leaves no whitespace in front, and the loop over *)
(* the remainders makes at most length(input)/3 calls.                     *)
C10_CallsWithinThird ==
    /\ (Called /\ result.ok) =>
           /\ Len(result.rem) + 3 <= Len(called)
           /\ result.rem = Drop(called, Len(called) - Len(result.rem))
           /\ result.rem # <<>> => result.rem[1] \notin Whitespace
    /\ Calls * 3 <= Len(input)

(* C10, amended: every successful call shortens the input by three         *)
(* characters or more and leaves a remainder that is a suffix of its input *)
(* with no whitespace in front; the loop makes at most length(input)/3     *)
(* successful calls and at most one more call, the one that fails: what   *)
(* is left of the input and three characters for every instruction parsed  *)
(* never exceed the input, and the loop has ended once nothing is left.    *)
C10_LoopTerminates ==
    /\ (Called /\ result.ok) =>
           /\ Len(result.rem) + 3 <= Len(called)
           /\ result.rem = Drop(called, Len(called) - Len(result.rem))
           /\ result.rem # <<>> => result.rem[1] \notin Whitespace
    /\ Len(instructions) * 3 <= Len(input)
    /\ Calls <= Len(input) \div 3 + 1
    /\ Len(rem) + 3 * Len(instructions) <= Len(input)
    /\ pc = "parsing" => rem # <<>>
    /\ pc = "done" <=> rem = <<>>

C10_Witness ==
    /\ pc = "done"
    /\ input = <<"F","R","O","M"," ","x",":","y","\n","R","U","N"," ","x">>
    /\ Len(instructions) = 2
    /\ Calls = 2
    /\ rem = <<>>

====
